---- MODULE Spec2Model ----
(***************************************************************************)
(* Model of dqlx's query compiler (query_operation.go) and of its DGo      *)
(* executor (executor: ExecuteQueries, ExecuteMutations, toResponse,       *)
(* Response.Unmarshal).                                                    *)
(*                                                                         *)
(* Text is a sequence of chunks.  A chunk is a one-character string        *)
(* wherever the code looks inside the text ("?", "_", "$", digits, the     *)
(* letters of names) and may be a longer literal where it does not         *)
(* ("query ", ") {").                                                      *)
(***************************************************************************)
EXTENDS Integers, Sequences, FiniteSets, TLC

VARIABLES executor, op, arg, ret, log

vars == <<executor, op, arg, ret, log>>

(***************************************************************************)
(* Bounds of the model.                                                    *)
(***************************************************************************)
MaxNames == 3
MaxQueries == 2
MaxBatch == 2
MaxWall == 3
MaxNsec == 1

(***************************************************************************)
(* Text helpers: fmt's %d, strings.Join, strings.ToLower, strings.Title.   *)
(***************************************************************************)
DigitChars == <<"0", "1", "2", "3", "4", "5", "6", "7", "8", "9">>

IsDigit(c) == \E i \in 1..10 : DigitChars[i] = c

DigitVal(c) == (CHOOSE i \in 1..10 : DigitChars[i] = c) - 1

RECURSIVE NatToA(_)
NatToA(n) ==
    IF n < 10 THEN <<DigitChars[n + 1]>>
    ELSE NatToA(n \div 10) \o <<DigitChars[(n % 10) + 1]>>

\* fmt's %d verb
Itoa(n) == IF n < 0 THEN <<"-">> \o NatToA(0 - n) ELSE NatToA(n)

RECURSIVE Join(_, _)
Join(parts, sep) ==
    IF Len(parts) = 0 THEN <<>>
    ELSE IF Len(parts) = 1 THEN parts[1]
    ELSE parts[1] \o sep \o Join(Tail(parts), sep)

ToLowerChar(c) ==
    CASE c = "A" -> "a"
      [] c = "B" -> "b"
      [] OTHER -> c

ToLower(s) == [i \in 1..Len(s) |-> ToLowerChar(s[i])]

ToUpperChar(c) ==
    CASE c = "a" -> "A"
      [] c = "b" -> "B"
      [] OTHER -> c

IsSeparator(c) == ~(c \in {"a", "b", "A", "B", "_"} \/ IsDigit(c))

\* strings.Title: upper-cases the first letter of every word; letters, digits
\* and the underscore do not separate words.
Title(s) ==
    [i \in 1..Len(s) |->
        IF i = 1 \/ IsSeparator(s[i - 1]) THEN ToUpperChar(s[i]) ELSE s[i]]

(***************************************************************************)
(* time.Time: a wall clock reading (seconds), a sub-second part and a zone *)
(* offset in hours.  Two values are the same instant when they agree on    *)
(* wall - 3600 * off and on nsec.                                          *)
(***************************************************************************)
Instant(t) == [sec |-> t.wall - 3600 * t.off, nsec |-> t.nsec]

\* The zone of the layout "Z07:00".
FormatZone(off) ==
    IF off = 0 THEN <<"Z">>
    ELSE <<(IF off < 0 THEN "-" ELSE "+")>>
            \o NatToA(IF off < 0 THEN 0 - off ELSE off) \o <<":00">>

\* Time.Format(time.RFC3339): layout "2006-01-02T15:04:05Z07:00".  The
\* date and time of day are written as the decimal wall clock reading; the
\* layout has no fractional seconds, so nsec is not written.
FormatRFC3339(t) == Itoa(t.wall) \o FormatZone(t.off)

RECURSIVE DigitPrefix(_)
DigitPrefix(s) ==
    IF Len(s) > 0 /\ IsDigit(s[1]) THEN 1 + DigitPrefix(Tail(s)) ELSE 0

RECURSIVE AtoN(_, _)
AtoN(s, acc) ==
    IF Len(s) = 0 THEN acc ELSE AtoN(Tail(s), 10 * acc + DigitVal(s[1]))

Drop(s, n) == SubSeq(s, n + 1, Len(s))

ParseError == [err |-> "parse", time |-> [wall |-> 0, off |-> 0, nsec |-> 0]]

ParseZone(s, wall, nsec) ==
    IF s = <<"Z">> THEN
        [err |-> "", time |-> [wall |-> wall, off |-> 0, nsec |-> nsec]]
    ELSE IF Len(s) >= 3 /\ s[1] \in {"+", "-"} /\ s[Len(s)] = ":00"
            /\ DigitPrefix(Tail(s)) = Len(s) - 2 THEN
        LET h == AtoN(SubSeq(s, 2, Len(s) - 1), 0) IN
        [err |-> "",
         time |-> [wall |-> wall, off |-> IF s[1] = "-" THEN 0 - h ELSE h,
                   nsec |-> nsec]]
    ELSE ParseError

\* time.Parse(time.RFC3339, s): the seconds field, an optional fractional
\* second (Parse accepts one after the seconds field even though the layout
\* has none), then the zone.
ParseRFC3339(s) ==
    LET d == DigitPrefix(s) IN
    IF d = 0 THEN ParseError
    ELSE
        LET wall == AtoN(SubSeq(s, 1, d), 0)
            rest == Drop(s, d)
        IN  IF Len(rest) > 0 /\ rest[1] = "." THEN
                LET f == DigitPrefix(Tail(rest)) IN
                IF f = 0 THEN ParseError
                ELSE ParseZone(Drop(rest, f + 1), wall,
                               AtoN(SubSeq(rest, 2, f + 1), 0))
            ELSE ParseZone(rest, wall, 0)

(***************************************************************************)
(* Argument values: [kind, v], kind the dynamic Go type.                   *)
(***************************************************************************)
SignedKinds == {"int", "int8", "int16", "int32", "int64"}

UnsignedKinds == {"uint", "uint8"}

FloatKinds == {"float32", "float64"}

TimeKinds == {"time.Time", "*time.Time"}

Times ==
    [wall : 0..MaxWall, off : {0 - 1, 0, 1}, nsec : 0..MaxNsec]

Values ==
    [kind : {"string"}, v : {<<"x">>, <<"7">>}]
        \cup [kind : SignedKinds \cup UnsignedKinds, v : {0, 7, 12}]
        \cup [kind : FloatKinds, v : {<<1, 5>>, <<2, 0>>}]
        \cup [kind : {"bool"}, v : BOOLEAN]
        \cup [kind : TimeKinds, v : Times]
        \cup [kind : {"[]int"}, v : {<<>>, <<7>>}]
        \cup [kind : {"nil"}, v : {0}]

\* fmt.Sprintf("%v", val) for the kinds above
SprintfV(value) ==
    CASE value.kind = "string" -> value.v
      [] value.kind \in SignedKinds \cup UnsignedKinds -> Itoa(value.v)
      [] value.kind \in FloatKinds ->
            Itoa(value.v[1])
                \o (IF value.v[2] = 0 THEN <<>> ELSE <<".">> \o Itoa(value.v[2]))
      [] value.kind = "bool" -> IF value.v THEN <<"true">> ELSE <<"false">>
      [] value.kind = "[]int" ->
            <<"[">> \o Join([i \in 1..Len(value.v) |-> Itoa(value.v[i])], <<" ">>)
                \o <<"]">>
      [] value.kind = "nil" -> <<"<nil>">>
      [] OTHER -> <<"?v">>

toVariableValue(value) ==
    CASE value.kind = "time.Time" -> FormatRFC3339(value.v)
      [] value.kind = "*time.Time" -> FormatRFC3339(value.v)
      [] OTHER -> SprintfV(value)

goTypeToDQLType(value) ==
    CASE value.kind = "string" -> <<"string">>
      [] value.kind \in {"int", "int8", "int32", "int64"} -> <<"int">>
      [] value.kind \in {"float32", "float64"} -> <<"float">>
      [] value.kind = "bool" -> <<"bool">>
      [] value.kind \in {"time.Time", "*time.Time"} -> <<"datetime">>
      [] OTHER -> <<"string">>

(***************************************************************************)
(* Operations and query builders.  An Operation (an edge) is a record      *)
(* [Name, text, args, err]: its name and what compiling it returns.  A     *)
(* QueryBuilder is [rootEdge, variables, unmarshalInto].                   *)
(***************************************************************************)
GetName(operation) == operation.Name

\* Operation.ToDQL(): (statement, args, err)
EdgeToDQL(operation) ==
    [err |-> operation.err, statement |-> operation.text, args |-> operation.args]

\* QueryBuilder.Name(name): a copy of the builder whose root edge has the name
SetName(query, name) ==
    [query EXCEPT !.rootEdge = [query.rootEdge EXCEPT !.Name = name]]

RenamedName(name, index) == name \o <<"_">> \o Itoa(index)

\* One pass of the loop of ensureUniqueQueryNames, index counted from 0.
RECURSIVE ensureUniqueLoop(_, _, _, _)
ensureUniqueLoop(queries, index, queryNames, uniqueQueries) ==
    IF index >= Len(queries) THEN uniqueQueries
    ELSE
        LET query == queries[index + 1]
            renamed ==
                IF query.rootEdge.Name \in queryNames
                THEN SetName(query, RenamedName(query.rootEdge.Name, index))
                ELSE query
        IN  ensureUniqueLoop(queries, index + 1,
                             queryNames \cup {renamed.rootEdge.Name},
                             Append(uniqueQueries, renamed))

ensureUniqueQueryNames(queries) == ensureUniqueLoop(queries, 0, {}, <<>>)

(***************************************************************************)
(* replacePlaceholders, toVariables, queryOperation.ToDQL, QueriesToDQL.   *)
(***************************************************************************)
\* strings.Index(query, "??"), counted from 1; 0 when there is none
IndexMarker(query) ==
    LET hits == {p \in 1..(Len(query) - 1) : query[p] = "?" /\ query[p + 1] = "?"}
    IN  IF hits = {} THEN 0 ELSE CHOOSE p \in hits : \A r \in hits : p <= r

\* the transform passed by ToDQL: fmt.Sprintf("$%d", index)
VarName(index) == <<"$">> \o Itoa(index)

RECURSIVE replaceLoop(_, _, _, _, _)
replaceLoop(query, args, i, buf, variables) ==
    LET p == IndexMarker(query) IN
    IF p = 0 THEN [query |-> buf \o query, variables |-> variables, panic |-> FALSE]
    ELSE IF i >= Len(args) THEN
        \* args[i]: index out of range
        [query |-> <<>>, variables |-> variables, panic |-> TRUE]
    ELSE
        replaceLoop(Drop(query, p + 1), args, i + 1,
                    buf \o SubSeq(query, 1, p - 1) \o VarName(i),
                    [k \in 0..i |-> IF k = i THEN args[i + 1] ELSE variables[k]])

replacePlaceholders(query, args) ==
    replaceLoop(query, args, 0, <<>>, [k \in {} |-> 0])

RECURSIVE SortedInts(_)
SortedInts(S) ==
    IF S = {} THEN <<>>
    ELSE LET m == CHOOSE x \in S : \A y \in S : x <= y
         IN  <<m>> \o SortedInts(S \ {m})

getSortedVariables(rawVariables) == SortedInts(DOMAIN rawVariables)

toVariables_Shifted(rawVariables) ==
    LET names == getSortedVariables(rawVariables)
        n == Len(names)
    IN  [variables |->
            [key \in {VarName(names[j]) : j \in 1..n} |->
                LET j == CHOOSE j \in 1..n : VarName(names[j]) = key
                IN  toVariableValue(rawVariables[(j % n)])],
         placeholders |->
            [j \in 1..n |->
                VarName(names[j]) \o <<":">> \o goTypeToDQLType(rawVariables[names[j]])]]

\* The loop index runs from 0, so the j-th name is visited with index j - 1.
toVariables(rawVariables) ==
    LET names == getSortedVariables(rawVariables)
        n == Len(names)
    IN  [variables |->
            [key \in {VarName(names[j]) : j \in 1..n} |->
                LET j == CHOOSE j \in 1..n : VarName(names[j]) = key
                IN  toVariableValue(rawVariables[j - 1])],
         placeholders |->
            [j \in 1..n |->
                VarName(names[j]) \o <<":">> \o goTypeToDQLType(rawVariables[names[j]])]]

\* addStatement (and addOperation, which only converts the slice): compile
\* the parts in order, stop at the first error.
RECURSIVE addStatement(_, _, _)
addStatement(parts, statements, args) ==
    IF Len(parts) = 0 THEN [err |-> "", args |-> args, statements |-> statements]
    ELSE
        LET c == EdgeToDQL(parts[1]) IN
        IF c.err # "" THEN [err |-> c.err, args |-> args, statements |-> statements]
        ELSE addStatement(Tail(parts), Append(statements, c.statement), args \o c.args)

addOperation(operations, statements, args) == addStatement(operations, statements, args)

\* ToDQL, lines 46-55: the variables, then the operations.
compileBlocks(grammar) ==
    LET r1 == addOperation(grammar.variables, <<>>, <<>>) IN
    IF r1.err # "" THEN r1
    ELSE addOperation(grammar.operations, r1.statements, r1.args)

NoVariables == [k \in {} |-> <<>>]

\* queryOperation.ToDQL: [query, variables, err, panic]
ToDQL(grammar) ==
    LET blocNames ==
            [i \in 1..Len(grammar.operations) |->
                Title(ToLower(GetName(grammar.operations[i])))]
        queryName == Join(blocNames, <<"_">>)
        blocks == compileBlocks(grammar)
    IN  IF blocks.err # "" THEN
            [err |-> blocks.err, query |-> <<>>, variables |-> NoVariables,
             panic |-> FALSE]
        ELSE
            LET innerQuery == Join(blocks.statements, <<" ">>)
                replaced == replacePlaceholders(innerQuery, blocks.args)
            IN  IF replaced.panic THEN
                    [err |-> "", query |-> <<>>, variables |-> NoVariables,
                     panic |-> TRUE]
                ELSE
                    LET tv == toVariables(replaced.variables) IN
                    [err |-> "",
                     query |->
                        <<"query ">> \o queryName \o <<"(">>
                            \o Join(tv.placeholders, <<", ">>) \o <<") {">>
                            \o <<" ">> \o replaced.query \o <<" }">>,
                     variables |-> tv.variables,
                     panic |-> FALSE]

RECURSIVE FlattenVariables(_)
FlattenVariables(queries) ==
    IF Len(queries) = 0 THEN <<>>
    ELSE [i \in 1..Len(queries[1].variables) |-> queries[1].variables[i].rootEdge]
            \o FlattenVariables(Tail(queries))

QueriesToDQL(queries) ==
    LET unique == ensureUniqueQueryNames(queries) IN
    ToDQL([variables |-> FlattenVariables(unique),
           operations |-> [i \in 1..Len(unique) |-> unique[i].rootEdge]])

(***************************************************************************)
(* Response.Unmarshal and DGoExecutor.toResponse.                          *)
(* A raw response is [jsonOk, values]: whether Raw.Json parses, and the    *)
(* top-level keys of the parsed object with their JSON values              *)
(* [t |-> "string", s |-> text] or [t |-> "number"].  A destination is     *)
(* [type], "time.Time" or "string".                                        *)
(***************************************************************************)
JNil == [t |-> "nil"]

JMap == [t |-> "map"]

\* The DecodeHook of Unmarshal, lines 240-245: what time.Parse made of
\* from.String() is assigned, its error fails the decode.
decodeHook(parsed) ==
    IF parsed.err # "" THEN [err |-> "decode", value |-> <<>>, set |-> FALSE]
    ELSE [err |-> "", value |-> parsed.time, set |-> TRUE]

\* decoder.Decode(input): nil input sets nothing; a time.Time destination
\* goes through the hook; anything else is assigned as it is.
Decode(input, dest) ==
    IF input.t = "nil" THEN [err |-> "", value |-> <<>>, set |-> FALSE]
    ELSE IF dest.type = "time.Time" THEN
        decodeHook(IF input.t = "string" THEN ParseRFC3339(input.s) ELSE ParseError)
    ELSE IF input.t = "string" THEN [err |-> "", value |-> input.s, set |-> TRUE]
    ELSE [err |-> "decode", value |-> <<>>, set |-> FALSE]

Unmarshal(response, dest) ==
    IF ~response.Raw.jsonOk THEN [err |-> "json", value |-> <<>>, set |-> FALSE]
    ELSE IF response.dataKeyPath # <<>> THEN
        Decode(IF response.dataKeyPath \in DOMAIN response.Raw.values
               THEN response.Raw.values[response.dataKeyPath]
               ELSE JNil,
               dest)
    ELSE Decode(JMap, dest)

NoDest == [type |-> "nil"]

UnmarshalEvent(key, r) == [key |-> key, err |-> r.err, call |-> "Unmarshal"]

\* The loop of toResponse, lines 164-178: queries without a destination
\* are skipped; the first Unmarshal error returns.
RECURSIVE decodeLoop(_, _, _)
RECURSIVE decodeNext(_, _, _, _)
decodeLoop(resp, queries, events) ==
    IF Len(queries) = 0 THEN [err |-> "", events |-> events]
    ELSE IF queries[1].unmarshalInto = NoDest
    THEN decodeLoop(resp, Tail(queries), events)
    ELSE decodeNext(resp, queries, events,
                    Unmarshal([Raw |-> resp, dataKeyPath |-> queries[1].rootEdge.Name],
                              queries[1].unmarshalInto))

\* lines 173-178: r is what singleResponse.Unmarshal returned
decodeNext(resp, queries, events, r) ==
    IF r.err # ""
    THEN [err |-> r.err,
          events |-> Append(events, UnmarshalEvent(queries[1].rootEdge.Name, r))]
    ELSE decodeLoop(resp, Tail(queries),
                    Append(events, UnmarshalEvent(queries[1].rootEdge.Name, r)))

\* lines 159-180: the response and the error of the loop
respond(resp, queries, d) ==
    [err |-> d.err,
     response |-> [Raw |-> resp,
                   dataKeyPath |-> IF Len(queries) = 1 THEN queries[1].rootEdge.Name
                                   ELSE <<>>],
     events |-> d.events]

toResponse(resp, queries) ==
    respond(resp, queries, decodeLoop(resp, ensureUniqueQueryNames(queries), <<>>))

(***************************************************************************)
(* The executor.  executor is the DGoExecutor value: client and tnx say    *)
(* whether the pointer is set.  A call's calls on the transaction are      *)
(* recorded in order in log; rpc holds what the server answers.            *)
(***************************************************************************)
NewExecutor(client) ==
    [client |-> client, tnx |-> FALSE, readOnly |-> FALSE, bestEffort |-> FALSE]

ensureClient(ex) == IF ex.client THEN "" ELSE "client"

getTnx(ex) ==
    [call |-> "getTnx",
     txn |-> IF ex.tnx THEN "ambient"
             ELSE IF ex.readOnly THEN "NewReadOnlyTxn" ELSE "NewTxn"]

DiscardEvent == [call |-> "Discard"]

CommitEvent(err) == [err |-> err, call |-> "Commit"]

deferDiscard_Never(events) == events

\* defer tx.Discard(ctx): runs when the call returns, after everything the
\* call did on the transaction.
deferDiscard(events) == Append(events, DiscardEvent)

shouldCommit_OwnTxnOnly(ex) == ~ex.readOnly /\ ~ex.tnx

\* ExecuteQueries, line 73
shouldCommit(ex) == ~ex.readOnly

Returned(err, response) == [err |-> err, panic |-> FALSE, response |-> response]

Panicked == [err |-> "", panic |-> TRUE, response |-> <<>>]

\* The end of both calls: the response of toResponse is returned and the
\* deferred Discard runs.
returnResponse(events, r) ==
    [ret |-> Returned(r.err, IF r.err = "" THEN r.response ELSE <<>>),
     log |-> deferDiscard(events \o r.events)]

\* ExecuteQueries, lines 66-80: sent is what the call did up to QueryWithVars.
queryAnswered(ex, queries, rpc, sent) ==
    IF rpc.requestErr # "" THEN
        [ret |-> Returned(rpc.requestErr, <<>>), log |-> deferDiscard(sent)]
    ELSE IF shouldCommit(ex) /\ rpc.commitErr # "" THEN
        [ret |-> Returned(rpc.commitErr, <<>>),
         log |-> deferDiscard(Append(sent, CommitEvent(rpc.commitErr)))]
    ELSE returnResponse(IF shouldCommit(ex) THEN Append(sent, CommitEvent(""))
                        ELSE sent,
                        toResponse(rpc.raw, queries))

\* ExecuteQueries, lines 59-68: c is what QueriesToDQL returned.
queryCompiled(ex, queries, rpc, c) ==
    IF c.panic THEN [ret |-> Panicked, log |-> <<>>]
    ELSE IF c.err # "" THEN [ret |-> Returned(c.err, <<>>), log |-> <<>>]
    ELSE queryAnswered(ex, queries, rpc,
                       <<getTnx(ex),
                         [err |-> rpc.requestErr, query |-> c.query,
                          variables |-> c.variables, call |-> "QueryWithVars"]>>)

\* ExecuteQueries: what it returns and what it called on the transaction.
executeQueries(ex, queries, rpc) ==
    IF ensureClient(ex) # "" THEN [ret |-> Returned(ensureClient(ex), <<>>), log |-> <<>>]
    ELSE queryCompiled(ex, queries, rpc, QueriesToDQL(queries))

\* json.Marshal of set/delete data: [kind], "nil" when the field is unset,
\* "chan" for a value json cannot encode.
NoData == [kind |-> "nil"]

Marshal(data) ==
    IF data.kind = "chan" THEN [err |-> "marshal", bytes |-> <<>>]
    ELSE [err |-> "", bytes |-> <<"json", data.kind>>]

mutationData(mutation) ==
    LET set == IF mutation.setData # NoData THEN Marshal(mutation.setData)
               ELSE [err |-> "", bytes |-> <<>>]
        del == IF mutation.delData # NoData THEN Marshal(mutation.delData)
               ELSE [err |-> "", bytes |-> <<>>]
    IN  IF set.err # "" THEN [err |-> set.err, setData |-> <<>>, deleteData |-> <<>>]
        ELSE IF del.err # "" THEN [err |-> del.err, setData |-> <<>>, deleteData |-> <<>>]
        ELSE [err |-> "", setData |-> set.bytes, deleteData |-> del.bytes]

NoCondition == [err |-> "nil", Name |-> <<>>, text |-> <<>>, args |-> <<>>]

\* ExecuteMutations, line 113
mutationCommitNow(ex) == ~ex.tnx

requestCommitNow_UnlessReadOnly(ex) == ~ex.tnx /\ ~ex.readOnly

\* ExecuteMutations, line 132
requestCommitNow(ex) == ~ex.tnx

\* The loop of ExecuteMutations, lines 91-117.
RECURSIVE mutationLoop(_, _, _, _)
mutationLoop(ex, mutations, queries, mutationRequests) ==
    IF Len(mutations) = 0
    THEN [err |-> "", queries |-> queries, mutationRequests |-> mutationRequests]
    ELSE
        LET mutation == mutations[1]
            cond == IF mutation.condition # NoCondition
                    THEN EdgeToDQL(mutation.condition)
                    ELSE [err |-> "", statement |-> <<>>, args |-> <<>>]
            data == mutationData(mutation)
        IN  IF cond.err # ""
            THEN [err |-> cond.err, queries |-> queries,
                  mutationRequests |-> mutationRequests]
            ELSE IF data.err # ""
            THEN [err |-> data.err, queries |-> Append(queries, mutation.query),
                  mutationRequests |-> mutationRequests]
            ELSE mutationLoop(ex, Tail(mutations), Append(queries, mutation.query),
                    Append(mutationRequests,
                           [SetJson |-> data.setData,
                            DeleteJson |-> data.deleteData,
                            Cond |-> cond.statement,
                            CommitNow |-> mutationCommitNow(ex)]))

\* IsEmptyQuery(query): the document has no root operation text, that is,
\* nothing but spaces stands between its braces.
IsEmptyQuery(query) ==
    \E open \in 1..Len(query) :
        /\ query[open] = ") {"
        /\ query[Len(query)] = " }"
        /\ open < Len(query)
        /\ \A i \in (open + 1)..(Len(query) - 1) : query[i] = " "

clearEmptyQuery_Keep(c) == [query |-> c.query, variables |-> c.variables]

\* ExecuteMutations, lines 121-124
clearEmptyQuery(c) ==
    IF IsEmptyQuery(c.query) THEN [query |-> <<>>, variables |-> NoVariables]
    ELSE [query |-> c.query, variables |-> c.variables]

\* ExecuteMutations, lines 137-145: sent is what the call did up to Do.
mutationAnswered(queries, rpc, sent) ==
    IF rpc.requestErr # "" THEN
        [ret |-> Returned(rpc.requestErr, <<>>), log |-> deferDiscard(sent)]
    ELSE returnResponse(sent, toResponse(rpc.raw, queries))

\* ExecuteMutations, lines 126-133: q is the query document after the
\* empty-query check.
mutationRequest(ex, m, q) ==
    [CommitNow |-> requestCommitNow(ex),
     Query |-> q.query,
     Vars |-> q.variables,
     ReadOnly |-> ex.readOnly,
     BestEffort |-> ex.bestEffort,
     Mutations |-> m.mutationRequests]

\* ExecuteMutations, lines 119-139: c is what QueriesToDQL returned, its
\* error (line 119) is not looked at.
mutationCompiled(ex, rpc, m, c) ==
    IF c.panic THEN [ret |-> Panicked, log |-> <<>>]
    ELSE mutationAnswered(m.queries, rpc,
                          <<getTnx(ex),
                            [err |-> rpc.requestErr, call |-> "Do",
                             request |-> mutationRequest(ex, m, clearEmptyQuery(c))]>>)

\* ExecuteMutations, lines 91-119: m is what the loop gathered.
mutationsGathered(ex, rpc, m) ==
    IF m.err # "" THEN [ret |-> Returned(m.err, <<>>), log |-> <<>>]
    ELSE mutationCompiled(ex, rpc, m, QueriesToDQL(m.queries))

\* ExecuteMutations: what it returns and what it called on the transaction.
executeMutations(ex, mutations, rpc) ==
    IF ensureClient(ex) # "" THEN [ret |-> Returned(ensureClient(ex), <<>>), log |-> <<>>]
    ELSE mutationsGathered(ex, rpc, mutationLoop(ex, mutations, <<>>, <<>>))

(***************************************************************************)
(* Inputs.                                                                 *)
(***************************************************************************)
SeqsUpTo(S, n) == UNION {[1..k -> S] : k \in 0..n}

Edge(name, text, args, err) == [err |-> err, Name |-> name, text |-> text, args |-> args]

Query(rootEdge, variables, dest) ==
    [rootEdge |-> rootEdge,
     variables |-> [i \in 1..Len(variables) |->
                        [rootEdge |-> variables[i], variables |-> <<>>,
                         unmarshalInto |-> NoDest]],
     unmarshalInto |-> dest]

\* The zero value of QueryBuilder, the query of a mutation that has none.
ZeroQuery == Query(Edge(<<>>, <<>>, <<>>, ""), <<>>, NoDest)

StringX == [kind |-> "string", v |-> <<"x">>]

Int7 == [kind |-> "int", v |-> 7]

Int16Of7 == [kind |-> "int16", v |-> 7]

BoolTrue == [kind |-> "bool", v |-> TRUE]

Noon == [kind |-> "time.Time", v |-> [wall |-> 1, off |-> 1, nsec |-> 0]]

TimeDest == [type |-> "time.Time"]

StringDest == [type |-> "string"]

\* Names of root edges, among them names that look like renamed ones.
NamePool == {<<"a">>, <<"b">>, <<"a", "_", "1">>, <<"a", "_", "2">>, <<>>}

NamedQueries == {Query(Edge(n, <<"{ uid }">>, <<>>, ""), <<>>, NoDest) : n \in NamePool}

\* Operations for the compiler: with no, one and two markers, with a stray
\* "?" after a marker, failing, and with too few or too many arguments.
RootPool ==
    {Edge(<<"a">>, <<"a { uid }">>, <<>>, ""),
     Edge(<<"a">>, <<"a(eq(name,", "?", "?", "))">>, <<StringX>>, ""),
     Edge(<<"b">>, <<"b(between(", "?", "?", ",", "?", "?", "))">>, <<Int7, Noon>>, ""),
     Edge(<<"b">>, <<"b(", "?", "?", "?", ")">>, <<Int16Of7>>, ""),
     Edge(<<"a">>, <<>>, <<>>, "compile")}

VariablePool ==
    {Edge(<<"v">>, <<"v as var(eq(at,", "?", "?", "))">>, <<Noon>>, ""),
     Edge(<<"w">>, <<"w as var(", "?", "?", ")">>, <<>>, ""),
     Edge(<<"w">>, <<"w as var(", "?", "?", "?", "?", ")">>, <<BoolTrue>>, ""),
     Edge(<<"v">>, <<"v as var()">>, <<BoolTrue>>, ""),
     Edge(<<"v">>, <<>>, <<>>, "compile")}

CompileQueries ==
    {Query(r, v, NoDest) : r \in RootPool, v \in SeqsUpTo(VariablePool, 1)}

\* Queries and mutations for the executor.
RootA == Edge(<<"a">>, <<"a(eq(name,", "?", "?", "))">>, <<StringX>>, "")

RootB == Edge(<<"b">>, <<"b { uid }">>, <<>>, "")

VarV == Edge(<<"v">>, <<"v as var(eq(at,", "?", "?", "))">>, <<Noon>>, "")

FailingEdge == Edge(<<"a">>, <<>>, <<>>, "compile")

FailingQuery == Query(FailingEdge, <<>>, NoDest)

ExecQueries ==
    {Query(RootA, <<>>, NoDest),
     Query(RootA, <<>>, TimeDest),
     Query(RootB, <<VarV>>, TimeDest),
     Query(RootA, <<>>, StringDest),
     FailingQuery,
     Query(RootB, <<FailingEdge>>, TimeDest)}

Mutation(condition, query, setData, delData) ==
    [query |-> query, setData |-> setData, delData |-> delData, condition |-> condition]

StructData == [kind |-> "struct"]

ChanData == [kind |-> "chan"]

Condition == Edge(<<>>, <<"@if(eq(len(v), 1))">>, <<>>, "")

FailingCondition == Edge(<<>>, <<>>, <<>>, "compile")

ExecMutations ==
    {Mutation(NoCondition, ZeroQuery, StructData, NoData),
     Mutation(Condition, Query(RootA, <<>>, TimeDest), StructData, StructData),
     Mutation(FailingCondition, ZeroQuery, StructData, NoData),
     Mutation(NoCondition, FailingQuery, StructData, NoData),
     Mutation(NoCondition, ZeroQuery, ChanData, NoData),
     Mutation(Condition, Query(RootB, <<VarV>>, TimeDest), NoData, StructData)}

\* What the server may answer: for each query with a destination, a
\* timestamp, a text that is no timestamp, or null under its key.
DestKeys(queries) ==
    LET unique == ensureUniqueQueryNames(queries) IN
    {unique[i].rootEdge.Name : i \in {j \in 1..Len(unique) : unique[j].unmarshalInto # NoDest}}

JsonValues ==
    {[s |-> FormatRFC3339(Noon.v), t |-> "string"], [s |-> <<"x">>, t |-> "string"], JNil}

Raws(keys) ==
    {[jsonOk |-> FALSE, values |-> [k \in {} |-> JNil]]}
        \cup {[jsonOk |-> TRUE, values |-> f] : f \in [keys -> JsonValues]}

Rpcs(queries) ==
    [requestErr : {"", "rpc"}, commitErr : {"", "commit"}, raw : Raws(DestKeys(queries))]

(***************************************************************************)
(* The executor as a state machine.  op, arg, ret and log record one call: *)
(* which method, its arguments, what it returned and what it called on the *)
(* transaction.  Configuring the executor clears the record; a call is     *)
(* recorded from a clear record (a call leaves the executor as it was, so  *)
(* a second call sees what the first saw).                                 *)
(***************************************************************************)
Init ==
    /\ executor = NewExecutor(FALSE)
    /\ op = "init"
    /\ arg = <<>>
    /\ ret = <<>>
    /\ log = <<>>

Configure(ex) ==
    /\ executor' = ex
    /\ op' = "init"
    /\ arg' = <<>>
    /\ ret' = <<>>
    /\ log' = <<>>

NewDGoExecutor == \E client \in BOOLEAN : Configure(NewExecutor(client))

WithTnx == \E tnx \in BOOLEAN : Configure([executor EXCEPT !.tnx = tnx])

WithClient == \E client \in BOOLEAN : Configure([executor EXCEPT !.client = client])

WithReadOnly ==
    \E readOnly \in BOOLEAN : Configure([executor EXCEPT !.readOnly = readOnly])

WithBestEffort ==
    \E bestEffort \in BOOLEAN : Configure([executor EXCEPT !.bestEffort = bestEffort])

\* A call on the executor: its input, what it returned and what it did on
\* the transaction are recorded; the executor's fields are not assigned.
Called(name, input, r) ==
    /\ op' = name
    /\ arg' = input
    /\ ret' = r.ret
    /\ log' = r.log
    /\ UNCHANGED executor

ExecuteQueries ==
    /\ op = "init"
    /\ \E queries \in SeqsUpTo(ExecQueries, MaxQueries) :
        \E rpc \in Rpcs(queries) :
            Called("ExecuteQueries", queries, executeQueries(executor, queries, rpc))

ExecuteMutations ==
    /\ op = "init"
    /\ \E mutations \in SeqsUpTo(ExecMutations, MaxBatch) :
        \E rpc \in Rpcs([i \in 1..Len(mutations) |-> mutations[i].query]) :
            Called("ExecuteMutations", mutations,
                   executeMutations(executor, mutations, rpc))

Next ==
    \/ NewDGoExecutor
    \/ WithTnx
    \/ WithClient
    \/ WithReadOnly
    \/ WithBestEffort
    \/ ExecuteQueries
    \/ ExecuteMutations

Spec == Init /\ [][Next]_vars

(***************************************************************************)
(* The compiler's and the decoder's functions: the initial state draws a   *)
(* function and its input, the action applies the function.                *)
(***************************************************************************)
Input(name, inputs) ==
    /\ op = "input"
    /\ arg \in {<<name, in>> : in \in inputs}

InitFunctions ==
    /\ executor = NewExecutor(FALSE)
    /\ ret = <<>>
    /\ log = <<>>
    /\ \/ Input("ensureUniqueQueryNames", SeqsUpTo(NamedQueries, MaxNames))
       \/ Input("goTypeToDQLType", Values)
       \/ Input("QueriesToDQL", SeqsUpTo(CompileQueries, MaxQueries))
       \/ Input("toVariableValue", Values)

Call(name, output) ==
    /\ op = "input"
    /\ arg[1] = name
    /\ op' = name
    /\ ret' = output
    /\ UNCHANGED <<executor, arg, log>>

CallEnsureUniqueQueryNames ==
    Call("ensureUniqueQueryNames", ensureUniqueQueryNames(arg[2]))

CallGoTypeToDQLType == Call("goTypeToDQLType", goTypeToDQLType(arg[2]))

CallQueriesToDQL == Call("QueriesToDQL", QueriesToDQL(arg[2]))

CallToVariableValue == Call("toVariableValue", toVariableValue(arg[2]))

\* The text toVariableValue gave comes back in a response, under the key
\* "a", and is decoded into a time.Time destination.
CallUnmarshal ==
    /\ op = "toVariableValue"
    /\ op' = "Unmarshal"
    /\ ret' = Unmarshal([Raw |-> [jsonOk |-> TRUE,
                                  values |-> [k \in {<<"a">>} |->
                                                 [s |-> ret, t |-> "string"]]],
                         dataKeyPath |-> <<"a">>],
                        TimeDest)
    /\ UNCHANGED <<executor, arg, log>>

NextFunctions ==
    \/ CallEnsureUniqueQueryNames
    \/ CallGoTypeToDQLType
    \/ CallQueriesToDQL
    \/ CallToVariableValue
    \/ CallUnmarshal

SpecFunctions == InitFunctions /\ [][NextFunctions]_vars

(***************************************************************************)
(* Properties.                                                             *)
(***************************************************************************)
RootNames(queries) == [i \in 1..Len(queries) |-> queries[i].rootEdge.Name]

\* C1: after ensureUniqueQueryNames the root names are pairwise distinct, the
\* first occurrence of a name keeps its name, and a colliding entry at
\* position i (counted from 0) is renamed to "<name>_<i>".
C1_NamesPairwiseDistinct ==
    op = "ensureUniqueQueryNames" =>
        LET in == RootNames(arg[2])
            out == RootNames(ret)
        IN  /\ Len(out) = Len(in)
            /\ \A i, j \in 1..Len(out) : i # j => out[i] # out[j]
            /\ \A i \in 1..Len(in) :
                IF \E j \in 1..(i - 1) : in[j] = in[i]
                THEN out[i] = in[i] \o <<"_">> \o Itoa(i - 1)
                ELSE out[i] = in[i]

OperationsOf(query) ==
    {query.rootEdge} \cup {query.variables[i].rootEdge : i \in 1..Len(query.variables)}

FailsToCompile(query) == \E o \in OperationsOf(query) : o.err # ""

Count(call) == Cardinality({i \in 1..Len(log) : log[i].call = call})

\* C2: in ExecuteQueries and ExecuteMutations, when compiling an operation
\* fails (a mutation's condition, or a root or auxiliary operation of a
\* query), the call returns that error and sends no request on the
\* transaction.
C2_CompileErrorAborts ==
    LET failed ==
            \/ /\ op = "ExecuteQueries"
               /\ \E i \in 1..Len(arg) : FailsToCompile(arg[i])
            \/ /\ op = "ExecuteMutations"
               /\ \A i \in 1..Len(arg) : mutationData(arg[i]).err = ""
               /\ \E i \in 1..Len(arg) :
                    \/ arg[i].condition # NoCondition /\ arg[i].condition.err # ""
                    \/ FailsToCompile(arg[i].query)
    IN  (executor.client /\ failed) =>
            /\ ret.err = "compile"
            /\ Count("QueryWithVars") = 0
            /\ Count("Do") = 0

QueriesOfCall ==
    IF op = "ExecuteMutations" THEN [i \in 1..Len(arg) |-> arg[i].query] ELSE arg

\* C3: once toResponse decodes, it attempts the decode of every destination
\* under that query's own key, also after one of them failed, and the caller
\* gets an error if any decode failed.
C3_EveryDestinationDecoded ==
    (op \in {"ExecuteQueries", "ExecuteMutations"} /\ Count("Unmarshal") > 0) =>
        /\ \A key \in DestKeys(QueriesOfCall) :
            \E i \in 1..Len(log) : log[i].call = "Unmarshal" /\ log[i].key = key
        /\ (\E i \in 1..Len(log) : log[i].call = "Unmarshal" /\ log[i].err # "")
                => ret.err # ""

\* C4: goTypeToDQLType follows the category table: string is "string", every
\* fixed-width signed integer kind is "int", float32 and float64 are "float",
\* bool is "bool", time.Time and *time.Time are "datetime", the rest "string".
C4_TypeTable ==
    op = "goTypeToDQLType" =>
        ret = CASE arg[2].kind = "string" -> <<"string">>
                [] arg[2].kind \in {"int", "int8", "int16", "int32", "int64"} -> <<"int">>
                [] arg[2].kind \in {"float32", "float64"} -> <<"float">>
                [] arg[2].kind = "bool" -> <<"bool">>
                [] arg[2].kind \in {"time.Time", "*time.Time"} -> <<"datetime">>
                [] OTHER -> <<"string">>

RECURSIVE ConcatAll(_)
ConcatAll(seqs) == IF Len(seqs) = 0 THEN <<>> ELSE seqs[1] \o ConcatAll(Tail(seqs))

\* The fragments in the order of the claim: the auxiliary operations of all
\* queries, then the root operations of all queries.
FragmentsInOrder(queries) ==
    ConcatAll([i \in 1..Len(queries) |->
                [j \in 1..Len(queries[i].variables) |-> queries[i].variables[j].rootEdge]])
        \o [i \in 1..Len(queries) |-> queries[i].rootEdge]

\* Where the markers of a text start, reading left to right.
RECURSIVE MarkersFrom(_, _)
MarkersFrom(text, p) ==
    IF p >= Len(text) THEN {}
    ELSE IF text[p] = "?" /\ text[p + 1] = "?" THEN {p} \cup MarkersFrom(text, p + 2)
    ELSE MarkersFrom(text, p + 1)

\* The text with its k-th marker (from 0) replaced by "$k".
Numbered(text) ==
    LET starts == MarkersFrom(text, 1) IN
    ConcatAll([p \in 1..Len(text) |->
                IF p \in starts THEN <<"$">> \o Itoa(Cardinality({q \in starts : q < p}))
                ELSE IF p - 1 \in starts THEN <<>>
                ELSE <<text[p]>>])

CompiledBody(queries) ==
    LET frags == FragmentsInOrder(queries) IN
    Join([i \in 1..Len(frags) |-> frags[i].text], <<" ">>)

CollectedArgs(queries) ==
    LET frags == FragmentsInOrder(queries) IN
    ConcatAll([i \in 1..Len(frags) |-> frags[i].args])

MarkersMatchArgs(queries) ==
    /\ \A i \in 1..Len(queries) : ~FailsToCompile(queries[i])
    /\ Cardinality(MarkersFrom(CompiledBody(queries), 1)) = Len(CollectedArgs(queries))

\* C5: with n markers and n arguments in all, QueriesToDQL emits the
\* auxiliary operations of all queries, then the root operations; the k-th
\* marker becomes "$k"; the variable map has the keys "$0".."$(n-1)", "$k"
\* holding the text of the k-th argument; the header declares "$k:type" in
\* increasing k, the type inferred from the k-th argument.
C5_MarkersNumberedInOrder ==
    (op = "QueriesToDQL" /\ MarkersMatchArgs(arg[2])) =>
        LET args == CollectedArgs(arg[2])
            n == Len(args)
            names == RootNames(ensureUniqueQueryNames(arg[2]))
            header ==
                <<"query ">>
                    \o Join([i \in 1..Len(names) |-> Title(ToLower(names[i]))], <<"_">>)
                    \o <<"(">>
                    \o Join([k \in 1..n |->
                                <<"$">> \o Itoa(k - 1) \o <<":">>
                                    \o goTypeToDQLType(args[k])], <<", ">>)
                    \o <<") {">>
        IN  /\ ret.err = ""
            /\ ~ret.panic
            /\ ret.query = header \o <<" ">> \o Numbered(CompiledBody(arg[2])) \o <<" }">>
            /\ DOMAIN ret.variables = {<<"$">> \o Itoa(k) : k \in 0..(n - 1)}
            /\ \A k \in 0..(n - 1) :
                ret.variables[<<"$">> \o Itoa(k)] = toVariableValue(args[k + 1])

C5_Witness ==
    /\ op = "QueriesToDQL"
    /\ MarkersMatchArgs(arg[2])
    /\ Len(arg[2]) = 2
    /\ Len(arg[2][1].variables) > 0 /\ Len(arg[2][1].variables[1].rootEdge.args) > 0
    /\ Len(arg[2][1].rootEdge.args) > 0
    /\ Len(arg[2][2].rootEdge.args) > 1
    /\ ~ret.panic /\ ret.err = ""
    /\ Cardinality(DOMAIN ret.variables) >= 4

TxObtained == Count("getTnx") > 0

\* C6: in ExecuteQueries and ExecuteMutations, once the transaction has been
\* obtained Discard is called on it exactly once, as the last thing, on every
\* exit path; it is not called when the call returns before that with a
\* missing-client, compile or marshal error.
C6_DiscardOncePerCall ==
    op \in {"ExecuteQueries", "ExecuteMutations"} =>
        /\ Count("Discard") = (IF TxObtained THEN 1 ELSE 0)
        /\ TxObtained => log[Len(log)].call = "Discard"
        /\ ret.err \in {"client", "compile", "marshal"} => Count("Discard") = 0
        /\ ret.err \in {"rpc", "commit", "json", "decode"} => Count("Discard") = 1
        /\ (ret.err = "" /\ ~ret.panic) => Count("Discard") = 1

C6_Witness ==
    /\ op = "ExecuteQueries"
    /\ executor.tnx
    /\ ret.err = "commit"
    /\ Count("Discard") = 1

\* C7: when no unit of a mutation batch has an attached query, the request of
\* ExecuteMutations has the empty string as query and no variables.
C7_NoQueryNoBlock ==
    (op = "ExecuteMutations" /\ \A i \in 1..Len(arg) : arg[i].query = ZeroQuery) =>
        \A i \in 1..Len(log) :
            log[i].call = "Do" =>
                /\ log[i].request.Query = <<>>
                /\ DOMAIN log[i].request.Vars = {}

C7_Witness ==
    /\ op = "ExecuteMutations"
    /\ Len(arg) >= 2
    /\ \A i \in 1..Len(arg) : arg[i].query = ZeroQuery
    /\ Count("Do") = 1

\* C8: a date/time encoded by toVariableValue and decoded again from a
\* response holding that text is the original instant, sub-second part
\* included.
C8_TimeRoundTrip ==
    (op = "Unmarshal" /\ arg[2].kind \in TimeKinds) =>
        /\ ret.err = ""
        /\ ret.set
        /\ Instant(ret.value) = Instant(arg[2].v)

\* C9: in every request of ExecuteMutations the commit-immediately flag of
\* each mutation record equals that of the request, and both are true exactly
\* when the executor has no ambient transaction.
C9_CommitNowIffNoAmbientTxn ==
    op = "ExecuteMutations" =>
        \A i \in 1..Len(log) :
            log[i].call = "Do" =>
                /\ log[i].request.CommitNow = ~executor.tnx
                /\ \A m \in 1..Len(log[i].request.Mutations) :
                    log[i].request.Mutations[m].CommitNow = log[i].request.CommitNow

C9_Witness ==
    /\ op = "ExecuteMutations"
    /\ ~executor.tnx
    /\ executor.readOnly
    /\ executor.bestEffort
    /\ \E i \in 1..Len(log) :
        log[i].call = "Do" /\ Len(log[i].request.Mutations) >= 2

Position(call) == CHOOSE i \in 1..Len(log) : log[i].call = call

\* C10: ExecuteQueries calls Commit exactly when the client is set, the
\* queries compiled, QueryWithVars succeeded and the executor is not
\* read-only, ambient transaction or not; Commit comes after QueryWithVars
\* and before Discard and before any decode.
C10_CommitUnlessReadOnly ==
    op = "ExecuteQueries" =>
        /\ Count("Commit") = 1
            <=> /\ executor.client
                /\ \A i \in 1..Len(arg) : ~FailsToCompile(arg[i])
                /\ \E i \in 1..Len(log) : log[i].call = "QueryWithVars" /\ log[i].err = ""
                /\ ~executor.readOnly
        /\ Count("Commit") <= 1
        /\ Count("Commit") = 1 =>
            /\ Position("QueryWithVars") < Position("Commit")
            /\ Position("Commit") < Position("Discard")
            /\ \A i \in 1..Len(log) :
                log[i].call = "Unmarshal" => Position("Commit") < i

C10_Witness ==
    /\ op = "ExecuteQueries"
    /\ executor.tnx
    /\ Count("Commit") = 1
    /\ Count("Unmarshal") = 2

====
